---- MODULE Spec2Model ----
(***************************************************************************)
(* Verification model of CLEAVE:                                           *)
(*   - the Recordable/Recorder substrate and the CSV recorder              *)
(*     (cleave/base/stats/recordable.py),                                  *)
(*   - the UDP controller service (cleave/base/network/backend.py),        *)
(*   - the plant and its simulation loop (cleave/client/plant.py).         *)
(***************************************************************************)
EXTENDS Integers, Sequences, FiniteSets, TLC

\* ------------------------------------------------------------------------
\* Bounds
\* ------------------------------------------------------------------------
MaxPush == 2      \* push_record calls made by the producer
MaxChunk == 2     \* largest chunk_size given to a CSVRecorder
MaxFlush == 1     \* explicit flush() calls made by the producer
MaxReqs == 2      \* sensor samples handed to the controller
MaxTime == 1      \* the monotonic clock ranges over 0..MaxTime
MaxSteps == 2     \* steps the plant loop begins
MaxNs == 3        \* time.monotonic_ns() ranges over 0..MaxNs
MaxStart == 2     \* Plant.start() calls made

\* chunk_size: int = 1000
DefaultChunkSize == 1000

\* ------------------------------------------------------------------------
\* Recordable schema (NamedRecordable.__init__)
\* ------------------------------------------------------------------------
\* required fields, in declaration order
record_fields_req == <<"seq", "val">>
\* optional fields, in declaration order
record_fields_opt == <<"tag">>
\* declared default of the optional field
DefaultTag == 0
\* value a caller supplies for the optional field when it supplies one
SuppliedTag == 5
\* value a caller supplies for "val"
SuppliedVal == 7

opt_record_fields == [f \in {"tag"} |-> DefaultTag]

\* all_record_fields = list(record_fields) + list(opt_record_fields.keys())
all_record_fields == record_fields_req \o record_fields_opt

Range(s) == {s[i] : i \in DOMAIN s}

\* the keyword sets the producer calls push_record with ("bogus" is outside
\* the schema): complete, complete with the optional field, a required field
\* missing, an unknown field, both faults, only the optional field
KeySets == {{"seq", "val"}, {"seq", "val", "tag"}, {"seq", "tag"},
            {"seq", "val", "bogus"}, {"val", "bogus"}, {"tag"}}

TypeError == [exc |-> "TypeError"]

\* namedtuple(name, fields, defaults=...)(**kwargs): an unexpected keyword
\* or a missing field without default raises TypeError, fields not supplied
\* take their default. The defaults go to the rightmost fields, which are
\* the optional ones, so they are given here by field name.
namedtuple_new(fields, defaults, kwargs) ==
    IF \E k \in DOMAIN kwargs : k \notin Range(fields)
    THEN TypeError
    ELSE IF \E f \in Range(fields) : f \notin DOMAIN kwargs /\ f \notin DOMAIN defaults
    THEN TypeError
    ELSE [f \in Range(fields) |->
             IF f \in DOMAIN kwargs THEN kwargs[f] ELSE defaults[f]]

\* record_cls that drops unknown keywords instead of rejecting them
record_cls_lax(kwargs) ==
    namedtuple_new(all_record_fields, opt_record_fields,
                   [k \in (DOMAIN kwargs) \cap Range(all_record_fields) |-> kwargs[k]])

\* self._record_cls(**kwargs)
record_cls(kwargs) ==
    namedtuple_new(all_record_fields, opt_record_fields, kwargs)

\* ------------------------------------------------------------------------
\* CSV recorder
\* ------------------------------------------------------------------------
Recorders == {1, 2}

\* content of a cell of np.empty that was never assigned
Uninit == [f \in Range(all_record_fields) |-> -1]

HeaderLine == [kind |-> "header", cells |-> all_record_fields]
RowLine(rec) == [kind |-> "row",
                 cells |-> [i \in DOMAIN all_record_fields |-> rec[all_record_fields[i]]]]
StaleLine == [kind |-> "stale", cells |-> <<>>]

\* chunk.to_csv(fp, header=header, index=False)
to_csv(chunk, header) ==
    (IF header THEN <<HeaderLine>> ELSE <<>>)
        \o [i \in DOMAIN chunk |-> RowLine(chunk[i])]

\* the table of np.empty((chunk_size, n)): shape0 rows, of which only the rows
\* that were assigned are stored; every other row holds uninitialised cells
iloc(table, i) == IF i \in DOMAIN table.data THEN table.data[i] ELSE Uninit

\* table.iloc[i] = row
iloc_set(table, i, row) ==
    [table EXCEPT !.data = [j \in (DOMAIN table.data) \cup {i} |->
                               IF j = i THEN row ELSE table.data[j]]]

\* CSVRecorder.__init__ (the part after the path checks)
CSVRecorder_init(chunk_size) ==
    [table_chunk   |-> [shape0 |-> chunk_size, data |-> <<>>],
     chunk_count   |-> 0,
     chunk_row_idx |-> 0,
     threads       |-> <<>>]

\* _flush_chunk_to_disk that leaves the row index where it is
flush_chunk_to_disk_keep_idx(s) ==
    LET chunk == [i \in 1..s.chunk_row_idx |-> iloc(s.table_chunk, i)]
        count == s.chunk_count
        t == [chunk |-> chunk, count |-> count, pc |-> "started"]
    IN  [s EXCEPT !.threads = Append(@, t),
                  !.chunk_count = @ + 1]

\* CSVRecorder._flush_chunk_to_disk: copies the filled rows, captures the
\* chunk counter, starts the writer thread, resets the row index.
flush_chunk_to_disk(s) ==
    LET chunk == [i \in 1..s.chunk_row_idx |-> iloc(s.table_chunk, i)]
        count == s.chunk_count
        t == [chunk |-> chunk, count |-> count, pc |-> "started"]
    IN  [s EXCEPT !.threads = Append(@, t),
                  !.chunk_row_idx = 0,
                  !.chunk_count = @ + 1]

\* CSVRecorder.notify (row indices are 1-based here, 0-based in the source)
notify(s, latest_record) ==
    LET s1 == [s EXCEPT !.table_chunk = iloc_set(@, s.chunk_row_idx + 1, latest_record),
                        !.chunk_row_idx = @ + 1]
    IN  IF s1.chunk_row_idx = s1.table_chunk.shape0
        THEN flush_chunk_to_disk(s1)
        ELSE s1

\* self._table_chunk.iloc[self._chunk_row_idx] = ... in notify: iloc does not
\* enlarge the table, a row index outside it raises IndexError (the table of
\* a recorder built with chunk_size=0 has no row at all)
notify_raises(s) == s.chunk_row_idx >= s.table_chunk.shape0

\* the orders in which "for recorder in self._recorders" may visit the set
Orders == {<<1, 2>>, <<2, 1>>}

RECURSIVE notify_each(_, _, _)
\* the loop of push_record over the recorders in iteration order: a notify
\* that raises ends the loop and leaves push_record
notify_each(c, record, order) ==
    IF order = <<>>
    THEN [c |-> c, raised |-> "none"]
    ELSE LET r == Head(order)
         IN  IF notify_raises(c[r])
             THEN [c |-> c, raised |-> "IndexError"]
             ELSE notify_each([c EXCEPT ![r] = notify(@, record)], record, Tail(order))

\* NamedRecordable.push_record with recorders whose notify may raise
push_record_in(c, kwargs, order) ==
    LET record == record_cls(kwargs)
    IN  IF record = TypeError
        THEN [c |-> c, raised |-> "TypeError"]
        ELSE notify_each(c, record, order)

\* push_record whose loop stops after the first recorder
push_record_first(c, kwargs) ==
    LET record == record_cls(kwargs)
        first == CHOOSE r \in DOMAIN c : TRUE
    IN  IF record = TypeError
        THEN c
        ELSE [r \in DOMAIN c |-> IF r = first THEN notify(c[r], record) ELSE c[r]]

\* NamedRecordable.push_record: build the record, then notify every recorder
push_record(c, kwargs) ==
    LET record == record_cls(kwargs)
    IN  IF record = TypeError
        THEN c
        ELSE [r \in DOMAIN c |-> notify(c[r], record)]

\* ------------------------------------------------------------------------
\* Control messages (cleave/base/network/protocol.py): the codec as sections
\* 3, 4.1 and 6 of the specification describe it and as the except clauses of
\* its caller datagramReceived expect it
\* ------------------------------------------------------------------------
SENSOR_SAMPLE == 1
CONTROL_COMMAND == 2
\* a type tag outside ControlMsgType
UnknownType == 99

\* encoded size of a message: fixed envelope plus its payload entries
EnvelopeSize == 20
EntrySize == 4

Addrs == {"A", "B"}
\* difference between time.time() and the monotonic clock after the wall
\* clock was set
Skews == {0, 1}
Seqs == {1, 2}
\* payloads, given by their number of entries
Payloads == {1, 2}

WireMessage(type, seq, timestamp, payload) ==
    [wire |-> "map", err |-> "none", type |-> type, seq |-> seq,
     timestamp |-> timestamp, payload |-> payload,
     size |-> EnvelopeSize + EntrySize * payload]

\* ControlMessage.serialize
serialize(msg) == WireMessage(msg.msg_type, msg.seq, msg.timestamp, msg.payload)

\* the datagrams the socket may deliver: the empty datagram, three byte
\* strings msgpack rejects (extra data, reserved byte, nesting too deep),
\* and well-formed maps of each type
Datagrams ==
    {[wire |-> "empty", err |-> "none", type |-> 0, seq |-> 0,
      timestamp |-> 0, payload |-> 0, size |-> 0]}
    \cup {[wire |-> "garbage", err |-> e, type |-> 0, seq |-> 0,
           timestamp |-> 0, payload |-> 0, size |-> 3]
          : e \in {"ValueError", "FormatError", "StackError"}}
    \cup {WireMessage(SENSOR_SAMPLE, q, 0, 1) : q \in Seqs}
    \cup {WireMessage(CONTROL_COMMAND, 1, 0, 2), WireMessage(UnknownType, 1, 0, 1)}

\* what arrives at the port: every sender may send any datagram that is no
\* sensor sample; each plant numbers its own samples, plant A is at seq 1 and
\* plant B at seq 2
SeqOf(addr) == IF addr = "A" THEN 1 ELSE 2

Arrivals ==
    {[dgram |-> d, addr |-> a] : d \in {x \in Datagrams : x.type # SENSOR_SAMPLE},
                                 a \in Addrs}
    \cup {[dgram |-> WireMessage(SENSOR_SAMPLE, SeqOf(a), 0, 1), addr |-> a] : a \in Addrs}

\* ControlMessageFactory.parse_message_from_bytes: raises NoMessage for an
\* empty datagram, a decoding error for bytes that are no message, ValueError
\* for a type tag that is no ControlMsgType; otherwise returns the message
parse_message_from_bytes(dgram) ==
    IF dgram.wire = "empty" THEN [exc |-> "NoMessage"]
    ELSE IF dgram.wire = "garbage" THEN [exc |-> dgram.err]
    ELSE IF dgram.type \notin {SENSOR_SAMPLE, CONTROL_COMMAND} THEN [exc |-> "ValueError"]
    ELSE [exc |-> "none", msg_type |-> dgram.type, seq |-> dgram.seq,
          timestamp |-> dgram.timestamp, payload |-> dgram.payload]

\* ControlMessage.make_control_reply: same seq, fresh timestamp read from the
\* monotonic clock
make_control_reply(in_msg, act_cmds, now) ==
    [exc |-> "none", msg_type |-> CONTROL_COMMAND, seq |-> in_msg.seq,
     timestamp |-> now, payload |-> act_cmds]

\* ------------------------------------------------------------------------
\* UDP controller service
\* ------------------------------------------------------------------------
\* record_fields of UDPControllerService._records
service_record_fields ==
    <<"seq", "recv_timestamp", "recv_size", "process_time", "send_timestamp", "send_size">>

\* self._records.push_record(**kwargs): the record handed to the recorders
service_push_record(kwargs) == namedtuple_new(service_record_fields, <<>>, kwargs)

\* the type test of datagramReceived written against the wrong member
IsControlRequest_wrong(in_msg) == in_msg.msg_type = CONTROL_COMMAND

\* datagramReceived tests the parsed message for a control request
IsControlRequest(in_msg) == in_msg.msg_type = SENSOR_SAMPLE

\* exceptions the except clauses of datagramReceived stop
Handled == {"NoMessage", "ValueError", "FormatError", "StackError"}

handles(exc) == exc \in Handled

\* result_callback that writes the reply a second time
result_callback_twice(c, act_cmds, now, write_ok) ==
    LET out_msg == make_control_reply(c.in_msg, act_cmds, now)
        out_dgram == serialize(out_msg)
        out_size == out_dgram.size
        sent == [to |-> c.addr, dgram |-> out_dgram]
    IN  IF ~write_ok
        THEN [raised |-> "OSError", written |-> <<>>, pushed |-> <<>>]
        ELSE [raised |-> "none",
              written |-> <<sent, sent>>,
              pushed |-> <<service_push_record(
                               [seq |-> c.in_msg.seq,
                                recv_timestamp |-> c.recv_time,
                                recv_size |-> c.in_size,
                                process_time |-> out_msg.timestamp - c.recv_time,
                                send_timestamp |-> out_msg.timestamp,
                                send_size |-> out_size])>>]

\* result_callback, the closure datagramReceived hands to the controller:
\* c holds the captured in_msg, recv_time, in_size and addr. transport.write
\* either sends the datagram or raises; an exception leaves the callback
\* before push_record.
result_callback(c, act_cmds, now, write_ok) ==
    LET out_msg == make_control_reply(c.in_msg, act_cmds, now)
        out_dgram == serialize(out_msg)
        out_size == out_dgram.size
    IN  IF ~write_ok
        THEN [raised |-> "OSError", written |-> <<>>, pushed |-> <<>>]
        ELSE [raised |-> "none",
              written |-> <<[to |-> c.addr, dgram |-> out_dgram]>>,
              pushed |-> <<service_push_record(
                               [seq |-> c.in_msg.seq,
                                recv_timestamp |-> c.recv_time,
                                recv_size |-> c.in_size,
                                process_time |-> out_msg.timestamp - c.recv_time,
                                send_timestamp |-> out_msg.timestamp,
                                send_size |-> out_size])>>]

VARIABLES
    csv,          \* per recorder: table_chunk, chunk_count, chunk_row_idx, threads
    lock,         \* per recorder: index of the writer thread holding _lock, 0 if free
    file,         \* per recorder: the lines of the output file
    initialized,  \* per recorder: initialize() has been called
    shut,         \* per recorder: "no", "called" (shutdown() is joining), "returned"
    joined,       \* per recorder: index of the thread shutdown() joins
    pushed,       \* history: the records of the push_record calls that returned
    attempt,      \* history: the latest push_record call and its outcome
    nflush        \* number of flush() calls made

csvvars == <<csv, lock, file, initialized, shut, joined, pushed, attempt, nflush>>

VARIABLES
    wall,          \* reading of time.time()
    mono,          \* reading of the monotonic clock
    transport,     \* "open" while the port listens, "closed" after the reactor stopped
    loop_running,  \* the LoopingCall of controller.process_loop is running
    pending,       \* the closures the controller holds and has not answered yet
    reqs,          \* history, per submit_request: callback runs, replies written, records pushed
    last_rx,       \* history: how the latest datagramReceived call ended
    last_cb,       \* history: the latest run of a result_callback and what it did
    escaped        \* history: exceptions that left the service's code, and where

svcvars == <<wall, mono, transport, loop_running, pending, reqs, last_rx, last_cb, escaped>>

VARIABLES
    plant,         \* the Plant object: _shutdown_event, _state, _last_update, _step_cnt,
                   \* and its sensor and actuator
    pc,            \* position of the loop process (Process.start, run, _step)
    loc,           \* locals of the _step call in progress: actuation, now, sample
    state_lck,     \* holder of _state_lck: "free" or "reader" (inside sample_state)
    clock_ns,      \* reading of time.monotonic_ns()
    ph             \* history of the plant: calls made, steps begun and done, events

plantvars == <<plant, pc, loc, state_lck, clock_ns, ph>>

VARIABLES
    nt             \* a notify call in progress on recorder 1, statement by statement:
                   \* its position, its record and the row index it has loaded

racevars == <<nt>>

VARIABLES
    recorders,     \* Recordable.recorders: the recorders that are attached
    built,         \* the recorders whose __init__ has run to its end
    ctor           \* history: the latest CSVRecorder(...) call and how it ended

ctorvars == <<recorders, built, ctor>>

vars == <<csvvars, svcvars, plantvars, racevars, ctorvars>>

\* what the steps of one subsystem leave alone
outside_csv == <<svcvars, plantvars, racevars, ctorvars>>
outside_service == <<csvvars, plantvars, racevars, ctorvars>>
outside_plant == <<csvvars, svcvars, racevars, ctorvars>>
outside_recorders == <<svcvars, plantvars, ctorvars>>
outside_recordable == <<svcvars, plantvars, racevars>>

\* ------------------------------------------------------------------------
\* Plant (cleave/client/plant.py)
\* ------------------------------------------------------------------------
\* readings of time.monotonic_ns() at which the Plant is constructed
ConstructionTimes == {0, 1}

\* what actuator.get_next_actuation() returns: 0 for no command, or a command
Actuations == {0, 1}

\* Plant.__init__: the state, the clock reading, the step counter, the sensor
\* and the actuator, and the shutdown event, which is created and set
Plant_init(now) ==
    [state          |-> 0,
     last_update    |-> now,
     step_cnt       |-> 0,
     sensor         |-> [up |-> TRUE, sample |-> 0],
     actuator       |-> [up |-> TRUE],
     shutdown_event |-> TRUE]

\* Plant.shutdown that only sets the event
Plant_shutdown_event_only(p) ==
    [p EXCEPT !.shutdown_event = TRUE]

\* Plant.shutdown: set the event, shut down the sensor and the actuator
Plant_shutdown(p) ==
    [p EXCEPT !.shutdown_event = TRUE,
              !.sensor.up = FALSE,
              !.actuator.up = FALSE]

\* multiprocessing.Process.start: a Process object can be started once
Process_start(spawned) ==
    IF spawned THEN "AssertionError" ELSE "started"

\* Plant.start: calls Process.start when the shutdown event is set
Plant_start(p, spawned) ==
    IF p.shutdown_event THEN Process_start(spawned) ELSE "noop"

\* dt_ns that is the nominal period whatever the clock reads
advance_dt_nominal(now, last_update) == 1

\* dt_ns=time.monotonic_ns() - self._last_update
advance_dt(now, last_update) == now - last_update

\* BaseState.advance: the state after the advance, which is also the sample
advance(state, dt_ns, actuation) == state + 1

\* utils.execute_periodically invokes fn again while shutdown_flag is not
\* set; the flag is polled between invocations only
execute_periodically_goes_on(shutdown_flag) == ~shutdown_flag

\* one event of a step, for the history
Ev(name, x, y) == [e |-> name, x |-> x, y |-> y]

NoFail == [phase |-> "none", begun |-> 0, cnt |-> 0]

InitPlantAt(now) ==
    /\ plant = Plant_init(now)
    /\ pc = "new"
    /\ loc = [actuation |-> 0, now |-> 0, dt_ns |-> 0, sample |-> 0]
    /\ state_lck = "free"
    /\ clock_ns = now
    /\ ph = [starts |-> 0, start_result |-> "none", start_after_shutdown |-> FALSE,
             shutdown_called |-> FALSE, shutdown_after_start |-> FALSE,
             begun |-> 0, done |-> 0, begun_late |-> FALSE, step_late |-> FALSE,
             fail |-> NoFail, trace |-> <<>>, touched |-> FALSE,
             t0 |-> now, dt_sum |-> 0, adv_now |-> now]

InitPlant == \E now \in ConstructionTimes : InitPlantAt(now)

\* the plant as the other subsystems see it: constructed, never started
InitPlantIdle == InitPlantAt(0)

\* kwargs of the n-th call: seq is the call number, which identifies the record
Kwargs(n, keys) ==
    [k \in keys |-> CASE k = "seq" -> n
                      [] k = "val" -> SuppliedVal
                      [] k = "tag" -> SuppliedTag
                      [] OTHER -> 1]

\* no CSVRecorder(...) call has been made
NoCtor == [r |-> 0, result |-> "none", before |-> {}]

\* no notify call is in progress
NotifyIdle == [pc |-> "idle", record |-> <<>>, idx |-> 0]

\* the recorders after construction; recorder 1 is built with chunk_size n,
\* recorder 2 with the default chunk_size
InitCSVWith(n) ==
    /\ csv = [r \in Recorders |->
                 IF r = 1 THEN CSVRecorder_init(n)
                          ELSE CSVRecorder_init(DefaultChunkSize)]
    /\ lock = [r \in Recorders |-> 0]
    /\ file = [r \in Recorders |-> <<StaleLine>>]
    /\ initialized = [r \in Recorders |-> FALSE]
    /\ shut = [r \in Recorders |-> "no"]
    /\ joined = [r \in Recorders |-> 0]
    /\ pushed = <<>>
    /\ attempt = [n |-> 0, keys |-> {}, result |-> "none"]
    /\ nflush = 0
    /\ nt = NotifyIdle
    /\ recorders = Recorders
    /\ built = Recorders
    /\ ctor = NoCtor

InitCSV == \E n \in 1..MaxChunk : InitCSVWith(n)

Producing == \A r \in Recorders : initialized[r] /\ shut[r] = "no"
Blocked == \E r \in Recorders : shut[r] = "called"

\* CSVRecorder.initialize: truncate the file
initialize(r) ==
    /\ ~initialized[r]
    /\ initialized' = [initialized EXCEPT ![r] = TRUE]
    /\ file' = [file EXCEPT ![r] = <<>>]
    /\ UNCHANGED outside_csv
    /\ UNCHANGED <<csv, lock, shut, joined, pushed, attempt, nflush>>

\* the producer calls push_record(**kwargs)
PushRecord(keys) ==
    /\ Producing
    /\ attempt.n < MaxPush
    /\ LET n == attempt.n + 1
           kwargs == Kwargs(n, keys)
           record == record_cls(kwargs)
       IN  /\ csv' = push_record(csv, kwargs)
           /\ attempt' = [n |-> n, keys |-> keys,
                          result |-> IF record = TypeError THEN "TypeError" ELSE "ok"]
           /\ pushed' = IF record = TypeError THEN pushed ELSE Append(pushed, record)
    /\ UNCHANGED outside_csv
    /\ UNCHANGED <<lock, file, initialized, shut, joined, nflush>>

\* CSVRecorder.flush
flush(r) ==
    /\ Producing
    /\ nflush < MaxFlush
    /\ nflush' = nflush + 1
    /\ csv' = [csv EXCEPT ![r] = flush_chunk_to_disk(@)]
    /\ UNCHANGED outside_csv
    /\ UNCHANGED <<lock, file, initialized, shut, joined, pushed, attempt>>

\* CSVRecorder.shutdown, up to the join: start the final writer
shutdown_call(r) ==
    /\ initialized[r]
    /\ ~Blocked
    /\ shut[r] = "no"
    /\ csv' = [csv EXCEPT ![r] = flush_chunk_to_disk(@)]
    /\ joined' = [joined EXCEPT ![r] = Len(csv[r].threads) + 1]
    /\ shut' = [shut EXCEPT ![r] = "called"]
    /\ UNCHANGED outside_csv
    /\ UNCHANGED <<lock, file, initialized, pushed, attempt, nflush>>

\* CSVRecorder.shutdown: join() returns once the joined thread has finished
shutdown_return(r) ==
    /\ shut[r] = "called"
    /\ csv[r].threads[joined[r]].pc = "done"
    /\ shut' = [shut EXCEPT ![r] = "returned"]
    /\ UNCHANGED outside_csv
    /\ UNCHANGED <<csv, lock, file, initialized, joined, pushed, attempt, nflush>>

\* writer thread _flush: acquire self._lock
flush_acquire(r, i) ==
    /\ i \in DOMAIN csv[r].threads
    /\ csv[r].threads[i].pc = "started"
    /\ lock[r] = 0
    /\ lock' = [lock EXCEPT ![r] = i]
    /\ csv' = [csv EXCEPT ![r].threads[i].pc = "locked"]
    /\ UNCHANGED outside_csv
    /\ UNCHANGED <<file, initialized, shut, joined, pushed, attempt, nflush>>

\* writer thread _flush: append the chunk to the file, release the lock
flush_write(r, i) ==
    /\ i \in DOMAIN csv[r].threads
    /\ csv[r].threads[i].pc = "locked"
    /\ lock[r] = i
    /\ LET t == csv[r].threads[i]
       IN  file' = [file EXCEPT ![r] = @ \o to_csv(t.chunk, t.count = 0)]
    /\ lock' = [lock EXCEPT ![r] = 0]
    /\ csv' = [csv EXCEPT ![r].threads[i].pc = "done"]
    /\ UNCHANGED outside_csv
    /\ UNCHANGED <<initialized, shut, joined, pushed, attempt, nflush>>

\* ------------------------------------------------------------------------
\* UDP controller service: state and steps
\* ------------------------------------------------------------------------
NoCallback == [id |-> 0, c |-> <<>>, raised |-> "none", written |-> <<>>, pushed |-> <<>>]

InitService ==
    /\ wall = 0
    /\ mono = 0
    /\ transport = "open"
    /\ loop_running = TRUE
    /\ reqs = <<>>
    /\ pending = {}
    /\ last_rx = [outcome |-> "none", submitted |-> FALSE]
    /\ last_cb = NoCallback
    /\ escaped = {}

Init == InitCSV /\ InitService /\ InitPlantIdle

\* the service on its own: its recorders are built with the default chunk_size
InitServiceOnly == InitCSVWith(DefaultChunkSize) /\ InitService /\ InitPlantIdle

\* real time passes: both clocks advance
Tick ==
    /\ mono < MaxTime
    /\ mono' = mono + 1
    /\ wall' = wall + 1
    /\ UNCHANGED <<transport, loop_running, reqs, pending, last_rx, last_cb, escaped>>
    /\ UNCHANGED outside_service

\* the wall clock is set (NTP step, administrator): time.time() jumps and
\* then reads the monotonic clock plus some skew
ClockStep ==
    /\ \E k \in Skews : mono + k # wall /\ wall' = mono + k
    /\ UNCHANGED <<mono, transport, loop_running, reqs, pending, last_rx, last_cb, escaped>>
    /\ UNCHANGED outside_service

\* the bookkeeping of one execution of result_callback for closure c
Ran(c, r) == [id |-> c.id, c |-> c, raised |-> r.raised,
              written |-> r.written, pushed |-> r.pushed]

Counted(q, r) == [q EXCEPT !.calls = @ + 1,
                           !.written = @ + Len(r.written),
                           !.pushed = @ + Len(r.pushed)]

NewRequest == [calls |-> 0, written |-> 0, pushed |-> 0]

\* UDPControllerService.datagramReceived(in_dgram, addr); the controller's
\* submit_request either keeps the request for later or runs the callback
\* before it returns
datagramReceived(in_dgram, addr) ==
    /\ transport = "open"
    /\ LET recv_time == wall
           in_size == in_dgram.size
           in_msg == parse_message_from_bytes(in_dgram)
           rx(outcome, submitted) == [outcome |-> outcome, submitted |-> submitted]
           c == [id |-> Len(reqs) + 1, in_msg |-> in_msg, recv_time |-> recv_time,
                 in_size |-> in_size, addr |-> addr]
       IN  IF in_msg.exc # "none"
           THEN /\ IF handles(in_msg.exc)
                   THEN /\ last_rx' = rx("returned", FALSE)
                        /\ escaped' = escaped
                   ELSE /\ last_rx' = rx("raised", FALSE)
                        /\ escaped' = escaped \cup {[from |-> "datagramReceived",
                                                     exc |-> in_msg.exc]}
                /\ UNCHANGED <<reqs, pending, last_cb>>
           ELSE IF IsControlRequest(in_msg)
           THEN /\ Len(reqs) < MaxReqs
                /\ \/ /\ reqs' = Append(reqs, NewRequest)
                      /\ pending' = pending \cup {c}
                      /\ last_rx' = rx("returned", TRUE)
                      /\ UNCHANGED <<last_cb, escaped>>
                   \/ \E act_cmds \in Payloads, write_ok \in BOOLEAN :
                          LET r == result_callback(c, act_cmds, mono, write_ok)
                          IN  /\ last_cb' = Ran(c, r)
                              /\ reqs' = Append(reqs, Counted(NewRequest, r))
                              /\ IF r.raised = "none" \/ handles(r.raised)
                                 THEN /\ last_rx' = rx("returned", TRUE)
                                      /\ escaped' = escaped
                                 ELSE /\ last_rx' = rx("raised", TRUE)
                                      /\ escaped' = escaped \cup
                                             {[from |-> "datagramReceived",
                                               exc |-> r.raised]}
                              /\ UNCHANGED pending
           ELSE /\ last_rx' = rx("returned", FALSE)
                /\ UNCHANGED <<reqs, pending, last_cb, escaped>>
    /\ UNCHANGED <<wall, mono, transport, loop_running>>
    /\ UNCHANGED outside_service

\* controller.process_loop, driven by the LoopingCall, answers a request it
\* kept: it runs the callback once. A write on a closed transport raises; an
\* exception that leaves process_loop stops the LoopingCall.
ControllerInvoke(c) ==
    /\ c \in pending
    /\ loop_running
    /\ \E act_cmds \in Payloads, io_ok \in BOOLEAN :
           LET write_ok == transport = "open" /\ io_ok
               r == result_callback(c, act_cmds, mono, write_ok)
           IN  /\ last_cb' = Ran(c, r)
               /\ reqs' = [reqs EXCEPT ![c.id] = Counted(@, r)]
               /\ IF r.raised = "none"
                  THEN UNCHANGED <<escaped, loop_running>>
                  ELSE /\ escaped' = escaped \cup {[from |-> "process_loop",
                                                    exc |-> r.raised]}
                       /\ loop_running' = FALSE
    /\ pending' = pending \ {c}
    /\ UNCHANGED <<wall, mono, transport, last_rx>>
    /\ UNCHANGED outside_service

\* the controller drops a request it kept: its callback never runs
ControllerDrop(c) ==
    /\ c \in pending
    /\ pending' = pending \ {c}
    /\ UNCHANGED <<wall, mono, transport, loop_running, reqs, last_rx, last_cb, escaped>>
    /\ UNCHANGED outside_service

\* the reactor is stopped: the port stops listening, the transport is closed
ReactorStop ==
    /\ transport = "open"
    /\ transport' = "closed"
    /\ UNCHANGED <<wall, mono, loop_running, reqs, pending, last_rx, last_cb, escaped>>
    /\ UNCHANGED outside_service

NextService ==
    \/ Tick
    \/ ClockStep
    \/ \E a \in Arrivals : datagramReceived(a.dgram, a.addr)
    \/ \E c \in pending : ControllerInvoke(c)
    \/ \E c \in pending : ControllerDrop(c)
    \/ ReactorStop

SpecService == InitServiceOnly /\ [][NextService]_vars

ThreadIds == 1..(MaxPush + MaxFlush + 1)

NextCSV ==
    \/ \E r \in Recorders : initialize(r)
    \/ \E keys \in KeySets : PushRecord(keys)
    \/ \E r \in Recorders : flush(r)
    \/ \E r \in Recorders : shutdown_call(r)
    \/ \E r \in Recorders : shutdown_return(r)
    \/ \E r \in Recorders, i \in ThreadIds : flush_acquire(r, i)
    \/ \E r \in Recorders, i \in ThreadIds : flush_write(r, i)

SpecCSV == Init /\ [][NextCSV]_vars

\* ------------------------------------------------------------------------
\* Recorders whose notify raises
\* ------------------------------------------------------------------------
\* recorder 1 is built with chunk_size 0..MaxChunk, recorder 2 with the default
InitNotifyRaises ==
    /\ \E n \in 0..MaxChunk : InitCSVWith(n)
    /\ InitService
    /\ InitPlantIdle

\* the producer calls push_record(**kwargs); the set of recorders is visited
\* in the given order. pushed holds the records that were built, attempt how
\* the call ended.
PushRecordIn(keys, order) ==
    /\ Producing
    /\ attempt.n < MaxPush
    /\ LET n == attempt.n + 1
           kwargs == Kwargs(n, keys)
           record == record_cls(kwargs)
           out == push_record_in(csv, kwargs, order)
       IN  /\ csv' = out.c
           /\ attempt' = [n |-> n, keys |-> keys,
                          result |-> IF out.raised = "none" THEN "ok" ELSE out.raised]
           /\ pushed' = IF record = TypeError THEN pushed ELSE Append(pushed, record)
    /\ UNCHANGED outside_csv
    /\ UNCHANGED <<lock, file, initialized, shut, joined, nflush>>

NextNotifyRaises ==
    \/ \E r \in Recorders : initialize(r)
    \/ \E keys \in KeySets, order \in Orders : PushRecordIn(keys, order)
    \/ \E r \in Recorders : flush(r)
    \/ \E r \in Recorders : shutdown_call(r)
    \/ \E r \in Recorders : shutdown_return(r)
    \/ \E r \in Recorders, i \in ThreadIds : flush_acquire(r, i)
    \/ \E r \in Recorders, i \in ThreadIds : flush_write(r, i)

SpecNotifyRaises == InitNotifyRaises /\ [][NextNotifyRaises]_vars

\* ------------------------------------------------------------------------
\* flush() from one thread while another thread is inside notify(): the
\* statements of notify are steps of their own, flush() runs between them
\* ------------------------------------------------------------------------
\* notify: self._table_chunk.iloc[self._chunk_row_idx] = pd.Series(...)
notify_assign_row ==
    /\ Producing
    /\ nt.pc = "idle"
    /\ attempt.n < MaxPush
    /\ ~notify_raises(csv[1])
    /\ LET n == attempt.n + 1
           record == record_cls(Kwargs(n, Range(record_fields_req)))
       IN  /\ csv' = [csv EXCEPT ![1].table_chunk =
                                    iloc_set(@, csv[1].chunk_row_idx + 1, record)]
           /\ nt' = [pc |-> "assigned", record |-> record, idx |-> 0]
           /\ attempt' = [n |-> n, keys |-> Range(record_fields_req), result |-> "none"]
           /\ pushed' = Append(pushed, record)
    /\ UNCHANGED outside_recorders
    /\ UNCHANGED <<lock, file, initialized, shut, joined, nflush>>

\* notify: self._chunk_row_idx += 1, the load of the attribute
notify_load_idx ==
    /\ nt.pc = "assigned"
    /\ nt' = [nt EXCEPT !.pc = "loaded", !.idx = csv[1].chunk_row_idx]
    /\ UNCHANGED outside_recorders
    /\ UNCHANGED csvvars

\* notify: self._chunk_row_idx += 1, the store of the attribute; then the
\* test for a full table and the hand-off; notify returns
notify_store_idx ==
    /\ nt.pc = "loaded"
    /\ LET s1 == [csv[1] EXCEPT !.chunk_row_idx = nt.idx + 1]
       IN  csv' = [csv EXCEPT ![1] = IF s1.chunk_row_idx = s1.table_chunk.shape0
                                     THEN flush_chunk_to_disk(s1)
                                     ELSE s1]
    /\ nt' = NotifyIdle
    /\ attempt' = [attempt EXCEPT !.result = "ok"]
    /\ UNCHANGED outside_recorders
    /\ UNCHANGED <<lock, file, initialized, shut, joined, pushed, nflush>>

NextFlushRace ==
    \/ \E r \in Recorders : initialize(r)
    \/ notify_assign_row
    \/ notify_load_idx
    \/ notify_store_idx
    \/ flush(1)
    \/ nt.pc = "idle" /\ shutdown_call(1)
    \/ shutdown_return(1)
    \/ \E i \in ThreadIds : flush_acquire(1, i)
    \/ \E i \in ThreadIds : flush_write(1, i)

SpecFlushRace == Init /\ [][NextFlushRace]_vars

\* ------------------------------------------------------------------------
\* Construction of recorders on a Recordable
\* ------------------------------------------------------------------------
\* the attributes of a recorder object whose __init__ has not assigned them
NotConstructed == CSVRecorder_init(0)

\* the orders in which a for loop may visit the set S
OrdersOf(S) == {o \in [1..Cardinality(S) -> S] : Range(o) = S}

RECURSIVE notify_attached(_, _, _, _)
\* the loop of push_record over the attached recorders: notify on an object
\* whose __init__ was left by an exception finds no _table_chunk and raises
\* AttributeError, which ends the loop and leaves push_record
notify_attached(c, done, record, order) ==
    IF order = <<>>
    THEN [c |-> c, raised |-> "none"]
    ELSE LET r == Head(order)
         IN  IF r \notin done
             THEN [c |-> c, raised |-> "AttributeError"]
             ELSE IF notify_raises(c[r])
             THEN [c |-> c, raised |-> "IndexError"]
             ELSE notify_attached([c EXCEPT ![r] = notify(@, record)], done,
                                  record, Tail(order))

\* a NamedRecordable with no recorder yet
InitConstruct ==
    /\ csv = [r \in Recorders |-> NotConstructed]
    /\ lock = [r \in Recorders |-> 0]
    /\ file = [r \in Recorders |-> <<StaleLine>>]
    /\ initialized = [r \in Recorders |-> FALSE]
    /\ shut = [r \in Recorders |-> "no"]
    /\ joined = [r \in Recorders |-> 0]
    /\ pushed = <<>>
    /\ attempt = [n |-> 0, keys |-> {}, result |-> "none"]
    /\ nflush = 0
    /\ nt = NotifyIdle
    /\ recorders = {}
    /\ built = {}
    /\ ctor = NoCtor
    /\ InitService
    /\ InitPlantIdle

\* CSVRecorder(recordable, output_path, chunk_size): Recorder.__init__ adds
\* the new object to recordable.recorders, then the path is examined and
\* FileExistsError raised for a directory, then the table is allocated
CSVRecorder_new(r, is_dir, chunk_size) ==
    /\ r \notin recorders
    /\ recorders' = recorders \cup {r}
    /\ IF is_dir
       THEN /\ ctor' = [r |-> r, result |-> "FileExistsError", before |-> recorders]
            /\ UNCHANGED <<built, csv>>
       ELSE /\ ctor' = [r |-> r, result |-> "ok", before |-> recorders]
            /\ built' = built \cup {r}
            /\ csv' = [csv EXCEPT ![r] = CSVRecorder_init(chunk_size)]
    /\ UNCHANGED outside_recordable
    /\ UNCHANGED <<lock, file, initialized, shut, joined, pushed, attempt, nflush>>

\* the producer calls push_record(**kwargs) on the Recordable
PushRecordAttached(keys, order) ==
    /\ \A r \in built : initialized[r]
    /\ attempt.n < MaxPush
    /\ LET n == attempt.n + 1
           kwargs == Kwargs(n, keys)
           record == record_cls(kwargs)
           out == IF record = TypeError
                  THEN [c |-> csv, raised |-> "TypeError"]
                  ELSE notify_attached(csv, built, record, order)
       IN  /\ csv' = out.c
           /\ attempt' = [n |-> n, keys |-> keys,
                          result |-> IF out.raised = "none" THEN "ok" ELSE out.raised]
           /\ pushed' = IF record = TypeError THEN pushed ELSE Append(pushed, record)
    /\ UNCHANGED outside_csv
    /\ UNCHANGED <<lock, file, initialized, shut, joined, nflush>>

NextConstruct ==
    \/ \E r \in Recorders, is_dir \in BOOLEAN, chunk_size \in 1..MaxChunk :
           CSVRecorder_new(r, is_dir, chunk_size)
    \/ \E r \in built : initialize(r)
    \/ \E keys \in KeySets, order \in OrdersOf(recorders) : PushRecordAttached(keys, order)
    \/ \E r \in built, i \in ThreadIds : flush_acquire(r, i)
    \/ \E r \in built, i \in ThreadIds : flush_write(r, i)

SpecConstruct == InitConstruct /\ [][NextConstruct]_vars

\* ------------------------------------------------------------------------
\* Plant: the caller's operations and the steps of the loop process
\* ------------------------------------------------------------------------
\* a caller calls Plant.start()
start ==
    /\ ph.starts < MaxStart
    /\ LET result == Plant_start(plant, pc # "new")
       IN  /\ pc' = IF result = "started" THEN "spawned" ELSE pc
           /\ ph' = [ph EXCEPT !.starts = @ + 1,
                               !.start_result = result,
                               !.start_after_shutdown = ph.shutdown_called]
    /\ UNCHANGED <<plant, loc, state_lck, clock_ns>>
    /\ UNCHANGED outside_plant

\* a caller outside the loop calls Plant.shutdown()
shutdown ==
    /\ plant' = Plant_shutdown(plant)
    /\ ph' = [ph EXCEPT !.shutdown_called = TRUE,
                        !.shutdown_after_start = @ \/ pc # "new"]
    /\ UNCHANGED <<pc, loc, state_lck, clock_ns>>
    /\ UNCHANGED outside_plant

\* Plant.sample_state: with self._state_lck
sample_state_enter ==
    /\ state_lck = "free"
    /\ state_lck' = "reader"
    /\ UNCHANGED <<plant, pc, loc, clock_ns, ph>>
    /\ UNCHANGED outside_plant

\* Plant.sample_state: return self._state, release the lock
sample_state_return ==
    /\ state_lck = "reader"
    /\ state_lck' = "free"
    /\ UNCHANGED <<plant, pc, loc, clock_ns, ph>>
    /\ UNCHANGED outside_plant

\* time passes
clock_tick ==
    /\ clock_ns < MaxNs
    /\ clock_ns' = clock_ns + 1
    /\ UNCHANGED <<plant, pc, loc, state_lck, ph>>
    /\ UNCHANGED outside_plant

\* Plant.run in the loop process: clear the shutdown event, enter
\* execute_periodically
run_clear ==
    /\ pc = "spawned"
    /\ plant' = [plant EXCEPT !.shutdown_event = FALSE]
    /\ pc' = "polling"
    /\ UNCHANGED <<loc, state_lck, clock_ns, ph>>
    /\ UNCHANGED outside_plant

\* the scheduler finds the flag not set and invokes Plant._step, which calls
\* the start-of-step hooks
step_begin ==
    /\ pc = "polling"
    /\ execute_periodically_goes_on(plant.shutdown_event)
    /\ ph.begun < MaxSteps
    /\ pc' = "begun"
    /\ ph' = [ph EXCEPT !.begun = @ + 1,
                        !.begun_late = @ \/ ph.shutdown_after_start,
                        !.step_late = ph.shutdown_called,
                        !.trace = <<Ev("start_of_step_hooks", 0, 0)>>]
    /\ UNCHANGED <<plant, loc, state_lck, clock_ns>>
    /\ UNCHANGED outside_plant

\* the step in progress began before any shutdown() call and now uses a
\* device that a shutdown() call has shut down
TouchesDown(device) == ~device.up /\ ~ph.step_late

\* an exception leaves _step and execute_periodically and reaches the except
\* clause of run
Raised(phase) ==
    /\ pc' = "caught"
    /\ ph' = [ph EXCEPT !.fail = [phase |-> phase, begun |-> ph.begun,
                                  cnt |-> plant.step_cnt],
                        !.touched = @ \/ (phase = "get_next_actuation"
                                             /\ TouchesDown(plant.actuator))
                                      \/ (phase = "sensor" /\ TouchesDown(plant.sensor))]
    /\ UNCHANGED <<plant, loc>>

\* _step: get_next_actuation, the pre-sim hooks, then the clock is read and
\* state.advance is called
step_actuate ==
    /\ pc = "begun"
    /\ \/ Raised("get_next_actuation")
       \/ \E actuation \in Actuations :
              LET now == clock_ns
                  dt_ns == advance_dt(now, plant.last_update)
              IN  /\ loc' = [loc EXCEPT !.actuation = actuation, !.now = now,
                                        !.dt_ns = dt_ns]
                  /\ pc' = "advancing"
                  /\ ph' = [ph EXCEPT
                               !.touched = @ \/ TouchesDown(plant.actuator),
                               !.dt_sum = @ + dt_ns,
                               !.adv_now = now,
                               !.trace = @ \o <<Ev("get_next_actuation", actuation, 0),
                                                Ev("pre_sim_hooks", actuation, 0),
                                                Ev("advance", dt_ns, actuation)>>]
                  /\ UNCHANGED plant
    /\ UNCHANGED <<state_lck, clock_ns>>
    /\ UNCHANGED outside_plant

\* _step: state.advance returns the sample (or raises), then
\* self._last_update = time.monotonic_ns()
step_advanced ==
    /\ pc = "advancing"
    /\ \/ Raised("advance")
       \/ LET sample == advance(plant.state, loc.dt_ns, loc.actuation)
          IN  /\ plant' = [plant EXCEPT !.state = sample, !.last_update = clock_ns]
              /\ loc' = [loc EXCEPT !.sample = sample]
              /\ pc' = "advanced"
              /\ ph' = [ph EXCEPT !.trace = @ \o <<Ev("advance returns", sample, 0),
                                                   Ev("last_update", clock_ns, 0)>>]
    /\ UNCHANGED <<state_lck, clock_ns>>
    /\ UNCHANGED outside_plant

\* _step: self._sensor.sample = sample (or it raises), the end-of-step hooks,
\* self._step_cnt += 1; _step returns to the scheduler
step_publish ==
    /\ pc = "advanced"
    /\ \/ Raised("sensor")
       \/ /\ plant' = [plant EXCEPT !.sensor.sample = loc.sample,
                                    !.step_cnt = @ + 1]
          /\ pc' = "polling"
          /\ ph' = [ph EXCEPT
                       !.done = @ + 1,
                       !.touched = @ \/ TouchesDown(plant.sensor),
                       !.trace = @ \o <<Ev("sensor.sample", loc.sample, 0),
                                        Ev("end_of_step_hooks", 0, 0),
                                        Ev("step_cnt", plant.step_cnt + 1, 0)>>]
          /\ UNCHANGED loc
    /\ UNCHANGED <<state_lck, clock_ns>>
    /\ UNCHANGED outside_plant

\* Plant.run: except Exception: log, self.shutdown(); run returns
run_except ==
    /\ pc = "caught"
    /\ plant' = Plant_shutdown(plant)
    /\ pc' = "exited"
    /\ ph' = [ph EXCEPT !.shutdown_called = TRUE, !.shutdown_after_start = TRUE]
    /\ UNCHANGED <<loc, state_lck, clock_ns>>
    /\ UNCHANGED outside_plant

\* the scheduler finds the flag set: execute_periodically and run return
run_return ==
    /\ pc = "polling"
    /\ ~execute_periodically_goes_on(plant.shutdown_event)
    /\ pc' = "exited"
    /\ UNCHANGED <<plant, loc, state_lck, clock_ns, ph>>
    /\ UNCHANGED outside_plant

NextPlant ==
    \/ start
    \/ shutdown
    \/ sample_state_enter
    \/ sample_state_return
    \/ clock_tick
    \/ run_clear
    \/ step_begin
    \/ step_actuate
    \/ step_advanced
    \/ step_publish
    \/ run_except
    \/ run_return

\* the plant on its own: the other subsystems are constructed and idle
InitPlantOnly == InitCSVWith(DefaultChunkSize) /\ InitService /\ InitPlant

SpecPlant == InitPlantOnly /\ [][NextPlant]_vars


\* ------------------------------------------------------------------------
\* Properties of the recording pipeline
\* ------------------------------------------------------------------------
RECURSIVE Chunks(_, _)
\* the rows of the first n chunks handed to writer threads, in hand-off order
Chunks(threads, n) ==
    IF n = 0 THEN <<>> ELSE Chunks(threads, n - 1) \o threads[n].chunk

\* the records recorder r holds or has handed to writers, in arrival order
Received(r) ==
    Chunks(csv[r].threads, Len(csv[r].threads))
        \o [i \in 1..csv[r].chunk_row_idx |-> iloc(csv[r].table_chunk, i)]

IsRowOf(line, rec) == line.kind = "row" /\ line.cells = RowLine(rec).cells

InFile(r, rec) == \E p \in DOMAIN file[r] : IsRowOf(file[r][p], rec)

AllWritersDone(r) == \A i \in DOMAIN csv[r].threads : csv[r].threads[i].pc = "done"

\* C1: when shutdown() has returned, every record notified before the
\* shutdown call is present in the output file.
C1_ShutdownDurable ==
    \A r \in Recorders :
        shut[r] = "returned" => \A i \in DOMAIN pushed : InFile(r, pushed[i])

\* C2: once all writer threads have finished, the data rows of the file are in
\* push order: a record notified earlier has its row before the row of a
\* record notified later.
C2_RowsInPushOrder ==
    \A r \in Recorders :
        AllWritersDone(r) =>
            \A i, j \in DOMAIN pushed :
                i < j =>
                    \A p, q \in DOMAIN file[r] :
                        IsRowOf(file[r][p], pushed[i]) /\ IsRowOf(file[r][q], pushed[j])
                            => p < q

\* C3: the header is the first physical line of the file and is written once:
\* no data row is in the file before the header.
C3_HeaderFirst ==
    \A r \in Recorders :
        initialized[r] =>
            /\ file[r] # <<>> => file[r][1].kind = "header"
            /\ Cardinality({p \in DOMAIN file[r] : file[r][p].kind = "header"}) <= 1

\* C4: every attached recorder receives exactly one notify per successful
\* push_record, in push order: what a recorder has received is the sequence
\* of the records of the successful pushes.
C4_NotifyInPushOrder ==
    \A r \in Recorders : Received(r) = pushed

C4_Witness ==
    /\ Len(pushed) >= 2
    /\ attempt.result = "ok"
    /\ \A r \in Recorders : Len(Received(r)) >= 2

\* the keyword sets the schema accepts
ValidKeys(keys) ==
    /\ Range(record_fields_req) \subseteq keys
    /\ keys \subseteq Range(record_fields_req) \cup Range(record_fields_opt)

C5_Outcome ==
    attempt.result # "none" =>
        /\ attempt.result = "ok" <=> ValidKeys(attempt.keys)
        /\ attempt.result = "ok" =>
              \A r \in Recorders :
                  LET rec == Received(r)[Len(Received(r))]
                  IN  /\ rec.seq = attempt.n
                      /\ rec.val = SuppliedVal
                      /\ rec.tag = IF "tag" \in attempt.keys
                                   THEN SuppliedTag ELSE DefaultTag

C5_FailedCall ==
    (attempt'.n # attempt.n /\ attempt'.result = "TypeError") => csv' = csv

\* C5: push_record succeeds iff the keywords contain every required field and
\* nothing outside required plus optional fields; omitted optional fields
\* take their defaults; a failing call notifies no recorder.
C5_SchemaValidation == []C5_Outcome /\ [][C5_FailedCall]_vars

C5_Witness ==
    /\ attempt.result = "TypeError"
    /\ Len(pushed) >= 1
    /\ pushed[1].tag = DefaultTag
    /\ \A r \in Recorders : Received(r) = pushed

\* C14: a notify that raises is swallowed: push_record returns normally (it
\* fails for a schema error only) and every recorder whose notify does not
\* raise has received every record that was pushed.
C14_NotifyErrorSwallowed ==
    /\ attempt.result \in {"none", "ok", "TypeError"}
    /\ \A r \in Recorders : ~notify_raises(csv[r]) => Received(r) = pushed

\* C21: after a CSVRecorder construction that failed with FileExistsError the
\* set of attached recorders is what it was before the call: every attached
\* recorder is fully constructed, and push_record does not fail on a
\* half-built one.
C21_FailedCtorNotAttached ==
    /\ ctor.result = "FileExistsError" => recorders = ctor.before
    /\ recorders \subseteq built
    /\ attempt.result # "AttributeError"

\* the positions of the file that hold the row of rec
RowsOf(r, rec) == {p \in DOMAIN file[r] : IsRowOf(file[r][p], rec)}

\* C15: with flush() running while another thread is inside notify(), once
\* the recorder is shut down and every writer has finished the file holds
\* one data row per notify call, every notified record exactly once.
C15_EveryRecordOnce ==
    (shut[1] = "returned" /\ AllWritersDone(1) /\ nt.pc = "idle") =>
        /\ Cardinality({p \in DOMAIN file[1] : file[1][p].kind = "row"}) = Len(pushed)
        /\ \A i \in DOMAIN pushed : Cardinality(RowsOf(1, pushed[i])) = 1

\* the rows handed to writers so far
Handed(r) == Chunks(csv[r].threads, Len(csv[r].threads))

C18_RowIndexInRange ==
    \A r \in Recorders :
        /\ 0 <= csv[r].chunk_row_idx
        /\ csv[r].chunk_row_idx < csv[r].table_chunk.shape0

C18_HandOff ==
    \A r \in Recorders :
        Len(csv'[r].threads) # Len(csv[r].threads) =>
            /\ Len(csv'[r].threads) = Len(csv[r].threads) + 1
            /\ csv'[r].chunk_row_idx = 0
            /\ csv'[r].chunk_count = csv[r].chunk_count + 1
            /\ attempt' # attempt =>
                   LET chunk == csv'[r].threads[Len(csv'[r].threads)].chunk
                   IN  /\ Len(chunk) = csv[r].table_chunk.shape0
                       /\ chunk = SubSeq(pushed', Len(Handed(r)) + 1, Len(pushed'))

\* C18: with sequential notify and flush calls the row index is in
\* 0..chunk_size-1 after every call; a chunk handed to a writer by notify
\* holds the chunk_size records notified since the previous hand-off; every
\* hand-off resets the row index and adds one to the chunk counter.
C18_ChunkBookkeeping == []C18_RowIndexInRange /\ [][C18_HandOff]_vars

C18_Witness ==
    /\ csv[1].table_chunk.shape0 = 2
    /\ Len(csv[1].threads) = 2
    /\ csv[1].threads[1].chunk = <<>>
    /\ Len(csv[1].threads[2].chunk) = 2
    /\ csv[1].chunk_row_idx = 0
    /\ csv[1].chunk_count = 2

\* ------------------------------------------------------------------------
\* Properties of the controller service
\* ------------------------------------------------------------------------
\* C6: a run of the callback of a sensor sample received from addr writes one
\* reply datagram to addr and pushes one record with the request's seq, the
\* size of the received datagram, the size of the reply written, and
\* process_time = send_timestamp - recv_timestamp.
C6_ReplyAndRecord ==
    last_cb.id # 0 =>
        /\ Len(last_cb.written) = 1
        /\ last_cb.written[1].to = last_cb.c.addr
        /\ last_cb.written[1].dgram.seq = last_cb.c.in_msg.seq
        /\ Len(last_cb.pushed) = 1
        /\ LET rec == last_cb.pushed[1]
           IN  /\ rec.seq = last_cb.c.in_msg.seq
               /\ rec.recv_size = last_cb.c.in_size
               /\ rec.send_size = last_cb.written[1].dgram.size
               /\ rec.process_time = rec.send_timestamp - rec.recv_timestamp

\* what C6 states, for the callback runs whose transport.write returned
WrittenReplyMatches ==
    (last_cb.id # 0 /\ last_cb.raised = "none") => C6_ReplyAndRecord

IsSample(dgram) == dgram.wire = "map" /\ dgram.type = SENSOR_SAMPLE

C7_DropStep ==
    \A a \in Arrivals :
        (~IsSample(a.dgram) /\ datagramReceived(a.dgram, a.addr)) =>
            /\ last_rx'.outcome = "returned"
            /\ ~last_rx'.submitted
            /\ UNCHANGED <<pending, reqs, last_cb, escaped, loop_running>>

\* C7: for an empty or malformed datagram, or a message that is no sensor
\* sample, datagramReceived returns without raising, submits nothing to the
\* controller, writes no reply and pushes no record.
C7_NonSamplesDropped == [][C7_DropStep]_vars

C7_Witness ==
    /\ last_rx.outcome = "returned"
    /\ ~last_rx.submitted
    /\ \E id \in DOMAIN reqs : reqs[id].written = 1 /\ reqs[id].pushed = 1

\* C8: the callback of a submit_request runs at most once, so a sensor sample
\* leads to at most one reply and at most one record; none when it never runs.
C8_AtMostOneReply ==
    \A id \in DOMAIN reqs :
        /\ reqs[id].calls <= 1
        /\ reqs[id].written <= 1
        /\ reqs[id].pushed <= 1
        /\ reqs[id].calls = 0 => reqs[id].written = 0 /\ reqs[id].pushed = 0

C8_Witness ==
    /\ pending = {}
    /\ \E id \in DOMAIN reqs :
           reqs[id].calls = 1 /\ reqs[id].written = 1 /\ reqs[id].pushed = 1
    /\ \E id \in DOMAIN reqs : reqs[id].calls = 0

\* C9: a failing transport.write is contained in the service: the callback
\* returns normally, nothing reaches the event loop, the service goes on.
C9_WriteErrorContained ==
    /\ last_cb.raised = "none"
    /\ escaped = {}
    /\ loop_running

\* C10: every record the service pushes has process_time >= 0.
C10_ProcessTimeNonNegative ==
    \A i \in DOMAIN last_cb.pushed : last_cb.pushed[i].process_time >= 0

\* ------------------------------------------------------------------------
\* Properties of the plant
\* ------------------------------------------------------------------------
\* C11: a start() call that follows an earlier start() with no shutdown()
\* before it is a no-op: it starts nothing and raises nothing.
C11_StartIdempotent ==
    (ph.starts >= 2 /\ ~ph.start_after_shutdown) => ph.start_result = "noop"

\* C12: once shutdown() has been called on a started plant, the loop begins
\* no further step.
C12_NoStepAfterShutdown == ~ph.begun_late

\* C13: when get_next_actuation, state.advance or the sensor assignment raises
\* in a step, the loop catches it and calls shutdown(): no further step is
\* begun, the step counter does not count the failed step, and when run() has
\* returned the event is set and sensor and actuator are shut down.
C13_StepExceptionShutsDown ==
    ph.fail.phase # "none" =>
        /\ pc \in {"caught", "exited"}
        /\ ph.begun = ph.fail.begun
        /\ plant.step_cnt = ph.fail.cnt
        /\ plant.step_cnt = ph.begun - 1
        /\ pc = "exited" =>
               /\ plant.shutdown_event
               /\ ~plant.sensor.up
               /\ ~plant.actuator.up

C13_Witness ==
    /\ ph.fail.phase = "sensor"
    /\ pc = "exited"
    /\ plant.step_cnt >= 1

\* C16: state.advance runs only while the loop holds the lock sample_state
\* takes: sample_state is never inside its critical section while advance
\* is in progress.
C16_AdvanceUnderLock == ~(pc = "advancing" /\ state_lck = "reader")

\* the events of one step, in the order the claim gives them
StepOrder ==
    <<"start_of_step_hooks", "get_next_actuation", "pre_sim_hooks", "advance",
      "advance returns", "last_update", "sensor.sample", "end_of_step_hooks",
      "step_cnt">>

\* C17: the events of a step occur in the order of StepOrder; the pre-sim
\* hooks and advance get the actuation get_next_actuation returned; advance
\* gets dt = now - last_update; the sample advance returned is the one
\* published; the step counter equals the number of completed steps.
C17_StepOrder ==
    /\ Len(ph.trace) <= Len(StepOrder)
    /\ \A i \in DOMAIN ph.trace : ph.trace[i].e = StepOrder[i]
    /\ Len(ph.trace) >= 4 =>
           /\ ph.trace[3].x = ph.trace[2].x
           /\ ph.trace[4].y = ph.trace[2].x
    /\ pc = "advancing" => ph.trace[4].x = loc.now - plant.last_update
    /\ Len(ph.trace) >= 7 => ph.trace[7].x = ph.trace[5].x
    /\ Len(ph.trace) = 9 => ph.trace[9].x = plant.step_cnt
    /\ plant.step_cnt = ph.done

C17_Witness ==
    /\ ph.done >= 2
    /\ Len(ph.trace) = 9
    /\ ph.trace[2].x = 1
    /\ ph.trace[4].x >= 2

\* C19: a step that is in progress when shutdown() is called does not, after
\* that call, call get_next_actuation on the actuator or assign sensor.sample
\* on the sensor that the call has shut down.
C19_NoTouchAfterShutdown == ~ph.touched

\* C20: the dt values passed to state.advance add up to the monotonic time
\* between construction and the clock reading of the latest advance.
C20_DtSumIsElapsed == ph.dt_sum = ph.adv_now - ph.t0

====
